---- MODULE Spec2Model ----
(***************************************************************************)
(* Label composition and printing of the Brother label printer: the tape   *)
(* width table, the scale factor, the binary-search font fit, the layout   *)
(* functions and the command line of app/print_label.py, and the batch and *)
(* single-label tabs of app/label_printer_gui.py.                          *)
(*                                                                         *)
(* Six specifications:                                                     *)
(*   Spec        every call of a layout function, of get_scale_factor and  *)
(*               of the command line, as one action each;                  *)
(*   SpecFit     the font-fit loop of the layout functions, one iteration  *)
(*               per step, over arbitrary bounds, budgets and measures;    *)
(*   SpecBatch   the handlers of the "Batch Mode" tab;                     *)
(*   SpecSingle  the handlers of the "QR + Text" tab;                      *)
(*   SpecCopies  the copies widgets of that tab and its print loop;        *)
(*   SpecIncrement  the +1 button of that tab.                             *)
(***************************************************************************)
EXTENDS Integers, Sequences, FiniteSets, TLC

(***************************************************************************)
(* Bounds of the model.                                                    *)
(***************************************************************************)
\* sizes of the stepped font-fit search range over 0..MaxSize
MaxSize == 5
\* a measure table takes its values in 0..MaxMeasure
MaxMeasure == 1
\* the longest text handed to a layout function
MaxTextLen == 16

VARIABLES
    call,       \* the arguments of the last call of a layout function
    ret,        \* what that call returned or raised
    fit_args,   \* SpecFit: the bounds, measure table and budget of the search
    search,     \* SpecFit: min_font_size, max_font_size, optimal_font_size
    pc,         \* SpecFit: "loop" while the while-loop runs, then "done"
    transport,  \* what the running handler passed to convert() and send()
    dialog,     \* the message boxes the last GUI handler showed, and the
                \* status bar message a print of the "QR + Text" tab ends with
    single_tab, \* the widgets and cached preview of the "QR + Text" tab
    batch_tab   \* the table and widgets of the "Batch Mode" tab

gui_vars == <<dialog, single_tab, batch_tab>>

vars == <<call, ret, fit_args, search, pc, transport, dialog, single_tab,
          batch_tab>>

(***************************************************************************)
(* Tape width table and scale factor.                                      *)
(***************************************************************************)
TAPE_WIDTHS == (29 :> 306) @@ (38 :> 413) @@ (50 :> 554) @@ (62 :> 696)

REFERENCE_TAPE_WIDTH == 29

REFERENCE_TAPE_PIXELS == TAPE_WIDTHS[REFERENCE_TAPE_WIDTH]

\* list(TAPE_WIDTHS.keys()), in the dict's insertion order
SupportedList == <<29, 38, 50, 62>>

\* Python's int() of the quotient n/d, d > 0: truncation toward zero
IntTrunc(n, d) == IF n >= 0 THEN n \div d ELSE -((-n) \div d)

\* a float that is the quotient of two integers, kept as the pair
Ratio(num, den) == [num |-> num, den |-> den]

\* a == b and a < b of two such floats, den > 0
RatioEq(a, b) == a.num * b.den = b.num * a.den

RatioLess(a, b) == a.num * b.den < b.num * a.den

\* a faulty variant of get_scale_factor that divides the widths in mm
get_scale_factor_mm(tape_width_mm) ==
    IF tape_width_mm \notin DOMAIN TAPE_WIDTHS
    THEN Ratio(1, 1)
    ELSE Ratio(tape_width_mm, REFERENCE_TAPE_WIDTH)

\* TAPE_WIDTHS[tape_width_mm] / REFERENCE_TAPE_PIXELS, and 1.0 for a width
\* that is not in the table
get_scale_factor(tape_width_mm) ==
    IF tape_width_mm \notin DOMAIN TAPE_WIDTHS
    THEN Ratio(1, 1)
    ELSE Ratio(TAPE_WIDTHS[tape_width_mm], REFERENCE_TAPE_PIXELS)

\* int(k * scale), scale = get_scale_factor(tape_width_mm)
Scaled(k, tape_width_mm) ==
    LET scale == get_scale_factor(tape_width_mm)
    IN  IntTrunc(k * scale.num, scale.den)

\* int(label_height_px * pct / 100)
Percent(label_height_px, pct) == IntTrunc(label_height_px * pct, 100)

Max2(a, b) == IF a >= b THEN a ELSE b

Min2(a, b) == IF a <= b THEN a ELSE b

(***************************************************************************)
(* The font-fit search: the while-loop every layout function repeats.      *)
(* measure is a table size -> measured extent, budget the target.          *)
(***************************************************************************)
\* a faulty variant of FitStart that starts from the lower bound
FitStartAtMin(min0, max0) ==
    [min_font_size |-> min0, max_font_size |-> max0,
     optimal_font_size |-> min0, tested |-> {}]

\* min_font_size, max_font_size and optimal_font_size = max_font_size
FitStart(min0, max0) ==
    [min_font_size |-> min0, max_font_size |-> max0,
     optimal_font_size |-> max0, tested |-> {}]

FitContinue(s) == s.max_font_size - s.min_font_size > 1

\* a faulty variant of FitStep that also records a size that does not fit
FitStepKeepsOverflow(s, measure, budget) ==
    LET test_font_size == (s.min_font_size + s.max_font_size) \div 2
    IN  IF measure[test_font_size] <= budget
        THEN [min_font_size |-> test_font_size,
              max_font_size |-> s.max_font_size,
              optimal_font_size |-> test_font_size,
              tested |-> s.tested \cup {test_font_size}]
        ELSE [min_font_size |-> s.min_font_size,
              max_font_size |-> test_font_size,
              optimal_font_size |-> test_font_size,
              tested |-> s.tested \cup {test_font_size}]

\* a faulty variant of FitStep whose failing branch leaves the bracket as it is
FitStepNoShrink(s, measure, budget) ==
    LET test_font_size == (s.min_font_size + s.max_font_size) \div 2
    IN  IF measure[test_font_size] <= budget
        THEN [min_font_size |-> test_font_size,
              max_font_size |-> s.max_font_size,
              optimal_font_size |-> test_font_size,
              tested |-> s.tested \cup {test_font_size}]
        ELSE [s EXCEPT !.tested = s.tested \cup {test_font_size}]

\* one iteration of the loop body
FitStep(s, measure, budget) ==
    LET test_font_size == (s.min_font_size + s.max_font_size) \div 2
    IN  IF measure[test_font_size] <= budget
        THEN [min_font_size |-> test_font_size,
              max_font_size |-> s.max_font_size,
              optimal_font_size |-> test_font_size,
              tested |-> s.tested \cup {test_font_size}]
        ELSE [min_font_size |-> s.min_font_size,
              max_font_size |-> test_font_size,
              optimal_font_size |-> s.optimal_font_size,
              tested |-> s.tested \cup {test_font_size}]

RECURSIVE FitRun(_, _, _)
FitRun(s, measure, budget) ==
    IF FitContinue(s) THEN FitRun(FitStep(s, measure, budget), measure, budget)
    ELSE s

\* the whole search, from the bounds to the size the layout then uses
FontFit(min0, max0, measure, budget) ==
    FitRun(FitStart(min0, max0), measure, budget)

(***************************************************************************)
(* The typeface, as the layout functions see it through Pillow: the        *)
(* vertical metrics of a font at a size, and the bounding box of a text    *)
(* drawn in it.  A text is a sequence of characters; metrics are in        *)
(* thousandths of the font size.                                           *)
(***************************************************************************)
DEFAULT_FONT == "Archivo-Bold.ttf"

Fonts == {DEFAULT_FONT, "DejaVuSans.ttf"}

FontTable(font_path) ==
    IF font_path = DEFAULT_FONT
    THEN [ascent |-> 878, descent |-> 210, cap |-> 686, stretch |-> 100]
    ELSE [ascent |-> 928, descent |-> 236, cap |-> 729, stretch |-> 112]

CharAdvance(c) ==
    CASE c = "W" -> 900
      [] c = " " -> 250
      [] c = "1" -> 450
      [] OTHER   -> 620

RECURSIVE Advance(_)
Advance(text) ==
    IF text = <<>> THEN 0 ELSE CharAdvance(Head(text)) + Advance(Tail(text))

\* font.getmetrics() of ImageFont.truetype(font_path, size)
getmetrics(font_path, size) ==
    [ascent  |-> (FontTable(font_path).ascent * size + 999) \div 1000,
     descent |-> (FontTable(font_path).descent * size + 999) \div 1000]

\* ascent + descent
MetricHeight(font_path, size) ==
    getmetrics(font_path, size).ascent + getmetrics(font_path, size).descent

\* draw.textbbox((0, 0), text, font): bbox[2] - bbox[0] and bbox[3] - bbox[1]
textbbox(text, font_path, size) ==
    IF text = <<>>
    THEN [width |-> 0, height |-> 0]
    ELSE [width  |-> (Advance(text) * FontTable(font_path).stretch * size)
                         \div 100000,
          height |-> (FontTable(font_path).cap * size) \div 1000]

\* the measure of a search over the font's vertical metric
HeightMeasure(font_path, min0, max0) ==
    [size \in min0..max0 |-> MetricHeight(font_path, size)]

\* the measure of a search over the width of the text
WidthMeasure(text, font_path, min0, max0) ==
    [size \in min0..max0 |-> textbbox(text, font_path, size).width]

(***************************************************************************)
(* What a layout function returns: the canvas and where it put things.     *)
(* bitmaps counts the images made on the way (Image.new, Image.open,       *)
(* make_image, rotate).                                                    *)
(***************************************************************************)
Blank ==
    [kind |-> "image", width |-> 0, height |-> 0, bitmaps |-> 0,
     font_size |-> 0, font_max |-> 0, text_width |-> 0, text_height |-> 0,
     text_x |-> 0, text_y |-> 0, text_extent |-> 0,
     qr_size |-> 0, qr_x |-> 0, qr_y |-> 0,
     rot_width |-> 0, rot_height |-> 0, left_section_width |-> 0,
     number_font_size |-> 0, number_width |-> 0, number_x |-> 0, number_y |-> 0,
     box_icon_size |-> 0, box_x |-> 0, box_y |-> 0,
     padding |-> 0, gap |-> 0, border_width |-> 0, supported |-> <<>>,
     scale |-> Ratio(0, 1),
     border |-> [x0 |-> 0, y0 |-> 0, x1 |-> 0, y1 |-> 0]]

\* a faulty variant of UnsupportedTapeWidth whose message names no supported width
UnsupportedTapeWidthNoList(tape_width_mm) ==
    [Blank EXCEPT !.kind = "ValueError"]

\* raise ValueError(f"Unsupported tape width: ... Supported: [29, 38, 50, 62]")
UnsupportedTapeWidth(tape_width_mm) ==
    [Blank EXCEPT !.kind = "ValueError", !.supported = SupportedList]

\* a faulty variant of label_height_px that ignores the tape width
label_height_px_reference(tape_width_mm) == REFERENCE_TAPE_PIXELS

\* label_height_px = TAPE_WIDTHS[tape_width_mm]
label_height_px(tape_width_mm) == TAPE_WIDTHS[tape_width_mm]

\* border_width = max(2, int(2 * scale))
border_width(tape_width_mm) == Max2(2, Scaled(2, tape_width_mm))

\* a faulty variant of border_rectangle whose far corner is one pixel out
border_rectangle_off_by_one(img_width, img_height, tape_width_mm) ==
    LET b == border_width(tape_width_mm)
    IN  [x0 |-> b \div 2, y0 |-> b \div 2,
         x1 |-> img_width - b \div 2, y1 |-> img_height - b \div 2]

\* the two corners handed to draw.rectangle; the outline is drawn
\* border_width wide, inwards from them
border_rectangle(img_width, img_height, tape_width_mm) ==
    LET b == border_width(tape_width_mm)
    IN  [x0 |-> b \div 2, y0 |-> b \div 2,
         x1 |-> img_width - b \div 2 - 1, y1 |-> img_height - b \div 2 - 1]

(***************************************************************************)
(* The layout functions.                                                   *)
(***************************************************************************)
\* Template 1: [QR Code] [Large Text Label], box icon bottom right
create_label_image(qr_data, text, tape_width_mm, font_path, font_size, include_qr) ==
    IF tape_width_mm \notin DOMAIN TAPE_WIDTHS
    THEN UnsupportedTapeWidth(tape_width_mm)
    ELSE
    LET height == label_height_px(tape_width_mm)
        padding == Scaled(15, tape_width_mm)
        box_icon_size == Scaled(80, tape_width_mm)
        qr_size == IF include_qr THEN Percent(height, 85) ELSE 0
        target_height == height - (padding * 2)
        min0 == Scaled(20, tape_width_mm)
        max0 == Scaled(font_size, tape_width_mm)
        fit == FontFit(min0, max0, HeightMeasure(font_path, min0, max0),
                       target_height)
        optimal_font_size == fit.optimal_font_size
        bbox == textbbox(text, font_path, optimal_font_size)
        text_padding == padding * 3
        img_width ==
            IF include_qr
            THEN qr_size + bbox.width + box_icon_size + padding * 2
                 + text_padding * 2
            ELSE bbox.width + box_icon_size + padding * 3 + text_padding
        m == getmetrics(font_path, optimal_font_size)
    IN  [Blank EXCEPT
           !.width = img_width,
           !.height = height,
           !.bitmaps = 3 + (IF include_qr THEN 1 ELSE 0),
           !.font_size = optimal_font_size,
           !.font_max = max0,
           !.text_width = bbox.width,
           !.text_height = bbox.height,
           !.text_extent = bbox.width,
           !.text_x = IF include_qr THEN padding + qr_size + text_padding
                      ELSE padding * 2,
           !.text_y = (height - (m.ascent + m.descent)) \div 2
                      + (m.descent \div 2),
           !.qr_size = qr_size,
           !.qr_x = IF include_qr THEN padding ELSE 0,
           !.qr_y = IF include_qr THEN (height - qr_size) \div 2 ELSE 0,
           !.box_icon_size = box_icon_size,
           !.box_x = img_width - box_icon_size - padding,
           !.box_y = height - box_icon_size - padding,
           !.padding = padding,
           !.border_width = border_width(tape_width_mm),
           !.border = border_rectangle(img_width, height, tape_width_mm)]

\* Template 2: QR code on top, text below it, both centred
create_label_image_template2(qr_data, text, tape_width_mm, font_path, font_size, include_qr) ==
    IF tape_width_mm \notin DOMAIN TAPE_WIDTHS
    THEN UnsupportedTapeWidth(tape_width_mm)
    ELSE
    LET height == label_height_px(tape_width_mm)
        padding == Scaled(15, tape_width_mm)
        text_gap == Scaled(30, tape_width_mm)
        qr_size == IF include_qr THEN Percent(height, 85) ELSE 0
        available_for_text ==
            IF include_qr THEN height - qr_size - text_gap - (padding * 2)
            ELSE height - (padding * 2)
        min0 == Scaled(20, tape_width_mm)
        max0 == Scaled(font_size, tape_width_mm)
        fit == FontFit(min0, max0, HeightMeasure(font_path, min0, max0),
                       available_for_text)
        optimal_font_size == fit.optimal_font_size
        bbox == textbbox(text, font_path, optimal_font_size)
        text_height_metrics == MetricHeight(font_path, optimal_font_size)
        img_width == Max2(IF include_qr THEN qr_size ELSE 0, bbox.width)
                     + padding * 2
        total_content_height == qr_size + text_gap + text_height_metrics
        start_y == (height - total_content_height) \div 2
    IN  [Blank EXCEPT
           !.width = img_width,
           !.height = height,
           !.bitmaps = 2 + (IF include_qr THEN 1 ELSE 0),
           !.font_size = optimal_font_size,
           !.font_max = max0,
           !.text_width = bbox.width,
           !.text_height = text_height_metrics,
           !.text_extent = bbox.width,
           !.text_x = (img_width - bbox.width) \div 2,
           !.text_y = IF include_qr THEN start_y + qr_size + text_gap
                      ELSE (height - text_height_metrics) \div 2,
           !.qr_size = qr_size,
           !.qr_x = IF include_qr THEN (img_width - qr_size) \div 2 ELSE 0,
           !.qr_y = IF include_qr THEN start_y ELSE 0,
           !.padding = padding,
           !.gap = text_gap,
           !.border_width = border_width(tape_width_mm),
           !.border = border_rectangle(img_width, height, tape_width_mm)]

\* Template 6: text on top, QR code below it, both centred
create_label_image_template6(qr_data, text, tape_width_mm, font_path, font_size, include_qr) ==
    IF tape_width_mm \notin DOMAIN TAPE_WIDTHS
    THEN UnsupportedTapeWidth(tape_width_mm)
    ELSE
    LET height == label_height_px(tape_width_mm)
        padding == Scaled(15, tape_width_mm)
        text_gap == Scaled(30, tape_width_mm)
        qr_size == IF include_qr THEN Percent(height, 85) ELSE 0
        available_for_text ==
            IF include_qr THEN height - qr_size - text_gap - (padding * 2)
            ELSE height - (padding * 2)
        min0 == Scaled(20, tape_width_mm)
        max0 == Scaled(font_size, tape_width_mm)
        fit == FontFit(min0, max0, HeightMeasure(font_path, min0, max0),
                       available_for_text)
        optimal_font_size == fit.optimal_font_size
        bbox == textbbox(text, font_path, optimal_font_size)
        text_height_metrics == MetricHeight(font_path, optimal_font_size)
        img_width == Max2(IF include_qr THEN qr_size ELSE 0, bbox.width)
                     + padding * 2
        total_content_height == text_height_metrics + text_gap + qr_size
        start_y == (height - total_content_height) \div 2
    IN  [Blank EXCEPT
           !.width = img_width,
           !.height = height,
           !.bitmaps = 2 + (IF include_qr THEN 1 ELSE 0),
           !.font_size = optimal_font_size,
           !.font_max = max0,
           !.text_width = bbox.width,
           !.text_height = text_height_metrics,
           !.text_extent = bbox.width,
           !.text_x = (img_width - bbox.width) \div 2,
           !.text_y = IF include_qr THEN start_y
                      ELSE (height - text_height_metrics) \div 2,
           !.qr_size = qr_size,
           !.qr_x = IF include_qr THEN (img_width - qr_size) \div 2 ELSE 0,
           !.qr_y = IF include_qr
                    THEN start_y + text_height_metrics + text_gap
                    ELSE 0,
           !.padding = padding,
           !.gap = text_gap,
           !.border_width = border_width(tape_width_mm),
           !.border = border_rectangle(img_width, height, tape_width_mm)]

\* Template 3: QR code on the left, text rotated 90 degrees counterclockwise
create_label_image_template3(qr_data, text, tape_width_mm, font_path, font_size, include_qr) ==
    IF tape_width_mm \notin DOMAIN TAPE_WIDTHS
    THEN UnsupportedTapeWidth(tape_width_mm)
    ELSE
    LET height == label_height_px(tape_width_mm)
        padding == Scaled(15, tape_width_mm)
        text_right_padding == Scaled(40, tape_width_mm)
        qr_size == IF include_qr THEN Percent(height, 90) ELSE 0
        target_height == height - (padding * 2)
        min0 == Scaled(20, tape_width_mm)
        max0 == Scaled(font_size, tape_width_mm)
        fit == FontFit(min0, max0, WidthMeasure(text, font_path, min0, max0),
                       target_height)
        optimal_font_size == fit.optimal_font_size
        bbox == textbbox(text, font_path, optimal_font_size)
        text_img_padding == Scaled(40, tape_width_mm)
        \* text_img.rotate(90, expand=True) swaps width and height
        rot_width == bbox.height + text_img_padding
        rot_height == bbox.width + text_img_padding
        img_width ==
            IF include_qr
            THEN qr_size + padding * 2 + rot_width + text_right_padding
            ELSE rot_width + padding * 2 + text_right_padding
    IN  [Blank EXCEPT
           !.width = img_width,
           !.height = height,
           !.bitmaps = 4 + Cardinality(fit.tested)
                       + (IF include_qr THEN 1 ELSE 0),
           !.font_size = optimal_font_size,
           !.font_max = max0,
           !.text_width = bbox.width,
           !.text_height = bbox.height,
           !.text_extent = rot_width,
           !.rot_width = rot_width,
           !.rot_height = rot_height,
           !.text_x = IF include_qr THEN padding + qr_size + padding
                      ELSE padding,
           !.text_y = (height - rot_height) \div 2,
           !.qr_size = qr_size,
           !.qr_x = IF include_qr THEN padding ELSE 0,
           !.qr_y = IF include_qr THEN (height - qr_size) \div 2 ELSE 0,
           !.padding = padding,
           !.border_width = border_width(tape_width_mm),
           !.border = border_rectangle(img_width, height, tape_width_mm)]

\* a faulty variant of text_only_text_x that starts the text at the left padding's half
text_only_text_x_left(img_width, text_width) == (img_width - text_width) \div 4

\* text_x = (img_width - text_width) // 2
text_only_text_x(img_width, text_width) == (img_width - text_width) \div 2

\* Template 4: text centred both ways
create_text_only_label(text, tape_width_mm, font_path, font_size) ==
    IF tape_width_mm \notin DOMAIN TAPE_WIDTHS
    THEN UnsupportedTapeWidth(tape_width_mm)
    ELSE
    LET height == label_height_px(tape_width_mm)
        padding_horizontal == Scaled(60, tape_width_mm)
        padding_vertical == Scaled(40, tape_width_mm)
        target_height == height - (padding_vertical * 2)
        min0 == Scaled(20, tape_width_mm)
        max0 == Scaled(font_size, tape_width_mm)
        fit == FontFit(min0, max0, HeightMeasure(font_path, min0, max0),
                       target_height)
        optimal_font_size == fit.optimal_font_size
        bbox == textbbox(text, font_path, optimal_font_size)
        img_width == bbox.width + (padding_horizontal * 2)
        m == getmetrics(font_path, optimal_font_size)
    IN  [Blank EXCEPT
           !.width = img_width,
           !.height = height,
           !.bitmaps = 2,
           !.font_size = optimal_font_size,
           !.font_max = max0,
           !.text_width = bbox.width,
           !.text_height = bbox.height,
           !.text_extent = bbox.width,
           !.text_x = text_only_text_x(img_width, bbox.width),
           !.text_y = (height - (m.ascent + m.descent)) \div 2
                      + (m.descent \div 2),
           !.padding = padding_horizontal,
           !.border_width = border_width(tape_width_mm),
           !.border = border_rectangle(img_width, height, tape_width_mm)]

\* a faulty variant of vertical_rotated_height that pads each side twice
vertical_rotated_height_wide(text_width, text_img_padding) ==
    text_width + text_img_padding * 4

\* the height of text_img.rotate(90, expand=True): the width of text_img,
\* which is the text width with the internal padding on both sides
vertical_rotated_height(text_width, text_img_padding) ==
    text_width + text_img_padding * 2

\* Vertical-only: one line of text rotated 90 degrees counterclockwise
create_vertical_text_label(text, tape_width_mm, font_path) ==
    IF tape_width_mm \notin DOMAIN TAPE_WIDTHS
    THEN UnsupportedTapeWidth(tape_width_mm)
    ELSE
    LET height == label_height_px(tape_width_mm)
        outer_margin == Max2(Scaled(15, tape_width_mm), Percent(height, 5))
        text_img_padding == Max2(Scaled(10, tape_width_mm), Percent(height, 3))
        target_height == height - (outer_margin * 2) - (text_img_padding * 2)
        min0 == Scaled(20, tape_width_mm)
        max0 == Scaled(500, tape_width_mm)
        fit == FontFit(min0, max0, WidthMeasure(text, font_path, min0, max0),
                       target_height)
        optimal_font_size == fit.optimal_font_size
        bbox == textbbox(text, font_path, optimal_font_size)
        rot_width == bbox.height + text_img_padding * 2
        rot_height == vertical_rotated_height(bbox.width, text_img_padding)
        img_width == rot_width + (outer_margin * 2)
    IN  [Blank EXCEPT
           !.width = img_width,
           !.height = height,
           !.bitmaps = 4 + Cardinality(fit.tested),
           !.font_size = optimal_font_size,
           !.font_max = max0,
           !.text_width = bbox.width,
           !.text_height = bbox.height,
           !.text_extent = rot_width,
           !.rot_width = rot_width,
           !.rot_height = rot_height,
           !.text_x = (img_width - rot_width) \div 2,
           !.text_y = (height - rot_height) \div 2,
           !.padding = outer_margin,
           !.gap = text_img_padding,
           !.border_width = border_width(tape_width_mm),
           !.border = border_rectangle(img_width, height, tape_width_mm)]

\* a faulty variant of shelf_number_x that leaves out the gap
shelf_number_x_nogap(padding, rot_width, gap) == padding + rot_width

\* number_x = padding + vert_text_rotated.width + gap
shelf_number_x(padding, rot_width, gap) == padding + rot_width + gap

\* Template 7: label word rotated 90 degrees clockwise, large number right
create_shelf_label(label_text, number, tape_width_mm, font_path) ==
    IF tape_width_mm \notin DOMAIN TAPE_WIDTHS
    THEN UnsupportedTapeWidth(tape_width_mm)
    ELSE
    LET height == label_height_px(tape_width_mm)
        padding == Scaled(20, tape_width_mm)
        gap == Scaled(30, tape_width_mm)
        target_height == height - (padding * 2)
        min0 == Scaled(30, tape_width_mm)
        max0 == Scaled(200, tape_width_mm)
        fit == FontFit(min0, max0,
                       WidthMeasure(label_text, font_path, min0, max0),
                       target_height)
        vertical_font_size == fit.optimal_font_size
        bbox == textbbox(label_text, font_path, vertical_font_size)
        text_img_padding == Scaled(40, tape_width_mm)
        \* vert_text_img.rotate(-90, expand=True) swaps width and height
        rot_width == bbox.height + text_img_padding
        rot_height == bbox.width + text_img_padding
        number_target_height == Percent(height, 70)
        nmin0 == Scaled(80, tape_width_mm)
        nmax0 == Scaled(500, tape_width_mm)
        nfit == FontFit(nmin0, nmax0, HeightMeasure(font_path, nmin0, nmax0),
                        number_target_height)
        number_font_size == nfit.optimal_font_size
        nbbox == textbbox(number, font_path, number_font_size)
        img_width == rot_width + gap + nbbox.width + (padding * 2)
        m == getmetrics(font_path, number_font_size)
    IN  [Blank EXCEPT
           !.width = img_width,
           !.height = height,
           !.bitmaps = 5 + Cardinality(fit.tested),
           !.font_size = vertical_font_size,
           !.font_max = max0,
           !.text_width = bbox.width,
           !.text_height = bbox.height,
           !.text_extent = rot_width,
           !.rot_width = rot_width,
           !.rot_height = rot_height,
           !.text_x = padding,
           !.text_y = (height - rot_height) \div 2,
           !.number_font_size = number_font_size,
           !.number_width = nbbox.width,
           !.number_x = shelf_number_x(padding, rot_width, gap),
           !.number_y = (height - (m.ascent + m.descent)) \div 2
                        + (m.descent \div 2),
           !.padding = padding,
           !.gap = gap,
           !.border_width = border_width(tape_width_mm),
           !.border = border_rectangle(img_width, height, tape_width_mm)]

\* a faulty variant of storage_y that leaves a gap below the code
storage_y_with_gap(left_start_y, qr_size, gap) == left_start_y + qr_size + gap

\* storage_y = left_start_y + qr_size: the caption starts where the code ends
storage_y(left_start_y, qr_size, gap) == left_start_y + qr_size

\* Template 8: QR code with the storage type below it, large number right
create_storage_qr_label(qr_data, storage_type, number, tape_width_mm, font_path, include_qr) ==
    IF tape_width_mm \notin DOMAIN TAPE_WIDTHS
    THEN UnsupportedTapeWidth(tape_width_mm)
    ELSE
    LET height == label_height_px(tape_width_mm)
        padding == Scaled(20, tape_width_mm)
        gap == Scaled(40, tape_width_mm)
        qr_size == IF include_qr THEN Percent(height, 65) ELSE 0
        \* min(available_for_text * 0.8, label_height_px * 0.2), in tenths of
        \* a pixel; without the QR code available_for_text is 0.3 of the
        \* height, and the minimum is the second term
        target_tenths ==
            IF include_qr
            THEN Min2((height - qr_size - padding * 2) * 8, height * 2)
            ELSE height * 2
        \* an integer height is <= the target iff it is <= its floor
        target_text_height == target_tenths \div 10
        min0 == Scaled(20, tape_width_mm)
        max0 == Scaled(150, tape_width_mm)
        fit == FontFit(min0, max0, HeightMeasure(font_path, min0, max0),
                       target_text_height)
        storage_font_size == fit.optimal_font_size
        bbox == textbbox(storage_type, font_path, storage_font_size)
        storage_text_height == MetricHeight(font_path, storage_font_size)
        left_section_width ==
            Max2(IF include_qr THEN qr_size ELSE 0, bbox.width)
        number_target_height == Percent(height, 75)
        nmin0 == Scaled(100, tape_width_mm)
        nmax0 == Scaled(600, tape_width_mm)
        nfit == FontFit(nmin0, nmax0, HeightMeasure(font_path, nmin0, nmax0),
                        number_target_height)
        number_font_size == nfit.optimal_font_size
        nbbox == textbbox(number, font_path, number_font_size)
        img_width == padding + left_section_width + gap + nbbox.width + padding
        total_left_height == qr_size + storage_text_height
        left_start_y == (height - total_left_height) \div 2
        m == getmetrics(font_path, number_font_size)
    IN  [Blank EXCEPT
           !.width = img_width,
           !.height = height,
           !.bitmaps = 3 + (IF include_qr THEN 1 ELSE 0),
           !.font_size = storage_font_size,
           !.font_max = max0,
           !.text_width = bbox.width,
           !.text_height = storage_text_height,
           !.text_extent = bbox.width,
           !.left_section_width = left_section_width,
           !.text_x = padding + (left_section_width - bbox.width) \div 2,
           !.text_y = IF include_qr THEN storage_y(left_start_y, qr_size, gap)
                      ELSE (height - storage_text_height) \div 2,
           !.qr_size = qr_size,
           !.qr_x = IF include_qr
                    THEN padding + (left_section_width - qr_size) \div 2
                    ELSE 0,
           !.qr_y = IF include_qr THEN left_start_y ELSE 0,
           !.number_font_size = number_font_size,
           !.number_width = nbbox.width,
           !.number_x = padding + left_section_width + gap,
           !.number_y = (height - (m.ascent + m.descent)) \div 2
                        + (m.descent \div 2),
           !.padding = padding,
           !.gap = gap,
           !.border_width = border_width(tape_width_mm),
           !.border = border_rectangle(img_width, height, tape_width_mm)]

(***************************************************************************)
(* Spec: the calls of the layout functions.  A caller may pass any tape    *)
(* width, text, payload, font and requested size.                          *)
(***************************************************************************)
Repeat(c, n) == [i \in 1..n |-> c]

Texts ==
    {Repeat("W", n) : n \in 0..MaxTextLen}
        \cup {<<"B", "O", "X", " ", "1">>, <<"S", "H", "E", "L", "F">>}

Numbers == {<<>>, <<"7">>, <<"1", "0">>}

Payloads == {"", "https://example.com/box/1"}

\* the four supported widths, and widths the table does not hold
TapeArgs == DOMAIN TAPE_WIDTHS \cup {0, 12}

\* requested sizes: the functions' default 100, the command line's default
\* 60, the GUI's range 40..250, and small sizes around the search's minimum
FontSizes == {1, 20, 21, 22, 40, 60, 100, 250}

Args(fn, qr_data, text, number, tape_width_mm, font_path, font_size, include_qr) ==
    [fn |-> fn, qr_data |-> qr_data, text |-> text, number |-> number,
     tape_width_mm |-> tape_width_mm, font_path |-> font_path,
     font_size |-> font_size, include_qr |-> include_qr]

Idle == [min0 |-> 0, max0 |-> 0, measure |-> <<>>, budget |-> 0]

\* self.preview_image = None
None == [kind |-> "None"]

\* the "QR + Text" tab after init_single_tab and load_settings
SingleTabInit ==
    [url_input |-> <<>>, include_qr_checkbox |-> TRUE, prefix_combo |-> <<>>,
     label_input |-> <<>>, template_combo |-> 1, tape_width_combo |-> 29,
     font_size_spin |-> 100, font_path_label |-> DEFAULT_FONT,
     preview_image |-> None, preview_label |-> "Generate a preview to see your label",
     print_button_enabled |-> TRUE,
     copy_buttons |-> <<TRUE, FALSE, FALSE, FALSE, FALSE>>,
     copies_combo |-> 0, current_copies |-> 1]

\* the "Batch Mode" tab after init_batch_tab: an empty table, no current row
BatchTabInit ==
    [batch_table |-> <<>>, current_row |-> -1, batch_template_combo |-> 1,
     batch_tape_width |-> 29, batch_font_size |-> 100, last_copies |-> 1]

\* the window after LabelPrinterGUI.__init__, nothing printed yet
InitWindow ==
    /\ transport = <<>>
    /\ dialog = <<>>
    /\ single_tab = SingleTabInit
    /\ batch_tab = BatchTabInit

Init ==
    /\ call = [fn |-> "none"]
    /\ ret = [kind |-> "none"]
    /\ fit_args = Idle
    /\ search = FitStart(0, 0)
    /\ pc = "ready"
    /\ InitWindow

CallCreateLabelImage ==
    /\ pc = "ready"
    /\ pc' = "returned"
    /\ UNCHANGED <<fit_args, search, transport, gui_vars>>
    /\ \E qr_data \in Payloads, text \in Texts, tape_width_mm \in TapeArgs,
          font_path \in Fonts, font_size \in FontSizes, include_qr \in BOOLEAN :
          /\ call' = Args("create_label_image", qr_data, text, <<>>, tape_width_mm,
                          font_path, font_size, include_qr)
          /\ ret' = create_label_image(qr_data, text, tape_width_mm,
                          font_path, font_size, include_qr)

CallCreateLabelImageTemplate2 ==
    /\ pc = "ready"
    /\ pc' = "returned"
    /\ UNCHANGED <<fit_args, search, transport, gui_vars>>
    /\ \E qr_data \in Payloads, text \in Texts, tape_width_mm \in TapeArgs,
          font_path \in Fonts, font_size \in FontSizes, include_qr \in BOOLEAN :
          /\ call' = Args("create_label_image_template2", qr_data, text, <<>>, tape_width_mm,
                          font_path, font_size, include_qr)
          /\ ret' = create_label_image_template2(qr_data, text, tape_width_mm,
                          font_path, font_size, include_qr)

CallCreateLabelImageTemplate3 ==
    /\ pc = "ready"
    /\ pc' = "returned"
    /\ UNCHANGED <<fit_args, search, transport, gui_vars>>
    /\ \E qr_data \in Payloads, text \in Texts, tape_width_mm \in TapeArgs,
          font_path \in Fonts, font_size \in FontSizes, include_qr \in BOOLEAN :
          /\ call' = Args("create_label_image_template3", qr_data, text, <<>>, tape_width_mm,
                          font_path, font_size, include_qr)
          /\ ret' = create_label_image_template3(qr_data, text, tape_width_mm,
                          font_path, font_size, include_qr)

CallCreateTextOnlyLabel ==
    /\ pc = "ready"
    /\ pc' = "returned"
    /\ UNCHANGED <<fit_args, search, transport, gui_vars>>
    /\ \E text \in Texts, tape_width_mm \in TapeArgs, font_path \in Fonts,
          font_size \in FontSizes :
          /\ call' = Args("create_text_only_label", "", text, <<>>, tape_width_mm,
                          font_path, font_size, FALSE)
          /\ ret' = create_text_only_label(text, tape_width_mm,
                          font_path, font_size)

CallCreateVerticalTextLabel ==
    /\ pc = "ready"
    /\ pc' = "returned"
    /\ UNCHANGED <<fit_args, search, transport, gui_vars>>
    /\ \E text \in Texts, tape_width_mm \in TapeArgs, font_path \in Fonts :
          /\ call' = Args("create_vertical_text_label", "", text, <<>>, tape_width_mm,
                          font_path, 500, FALSE)
          /\ ret' = create_vertical_text_label(text, tape_width_mm,
                          font_path)

CallCreateLabelImageTemplate6 ==
    /\ pc = "ready"
    /\ pc' = "returned"
    /\ UNCHANGED <<fit_args, search, transport, gui_vars>>
    /\ \E qr_data \in Payloads, text \in Texts, tape_width_mm \in TapeArgs,
          font_path \in Fonts, font_size \in FontSizes, include_qr \in BOOLEAN :
          /\ call' = Args("create_label_image_template6", qr_data, text, <<>>, tape_width_mm,
                          font_path, font_size, include_qr)
          /\ ret' = create_label_image_template6(qr_data, text, tape_width_mm,
                          font_path, font_size, include_qr)

CallCreateShelfLabel ==
    /\ pc = "ready"
    /\ pc' = "returned"
    /\ UNCHANGED <<fit_args, search, transport, gui_vars>>
    /\ \E label_text \in Texts, number \in Numbers, tape_width_mm \in TapeArgs,
          font_path \in Fonts :
          /\ call' = Args("create_shelf_label", "", label_text, number, tape_width_mm,
                          font_path, 200, FALSE)
          /\ ret' = create_shelf_label(label_text, number, tape_width_mm,
                          font_path)

CallCreateStorageQrLabel ==
    /\ pc = "ready"
    /\ pc' = "returned"
    /\ UNCHANGED <<fit_args, search, transport, gui_vars>>
    /\ \E qr_data \in Payloads, storage_type \in Texts, number \in Numbers,
          tape_width_mm \in TapeArgs, font_path \in Fonts, include_qr \in BOOLEAN :
          /\ call' = Args("create_storage_qr_label", qr_data, storage_type, number, tape_width_mm,
                          font_path, 150, include_qr)
          /\ ret' = create_storage_qr_label(qr_data, storage_type, number, tape_width_mm,
                          font_path, include_qr)

CallGetScaleFactor ==
    /\ pc = "ready"
    /\ pc' = "returned"
    /\ UNCHANGED <<fit_args, search, transport, gui_vars>>
    /\ \E tape_width_mm \in TapeArgs :
          /\ call' = Args("get_scale_factor", "", <<>>, <<>>, tape_width_mm,
                          DEFAULT_FONT, 0, FALSE)
          /\ ret' = [Blank EXCEPT !.kind = "float",
                                  !.scale = get_scale_factor(tape_width_mm)]

\* os.path.isfile(args.font)
isfile(font_path) == font_path \in Fonts

\* one image handed to convert() with label=str(tape_width_mm), and send();
\* ok is whether the printer took it (FALSE: convert or send raised)
Transmission(image, tape_width_mm, ok) ==
    [image |-> image, label |-> tape_width_mm, ok |-> ok]

\* print_label(image, tape_width_mm): save, convert, send once
print_label(image, tape_width_mm, ok) ==
    <<Transmission(image, tape_width_mm, ok)>>

\* main() up to the image: argparse lets only the table's widths through, a
\* missing font file returns 1, and url and label go to create_label_image
\* as they were typed
main(url, label, tape_width, font, font_size) ==
    IF tape_width \notin DOMAIN TAPE_WIDTHS
    THEN [Blank EXCEPT !.kind = "SystemExit"]
    ELSE IF ~isfile(font)
    THEN [Blank EXCEPT !.kind = "return 1"]
    ELSE create_label_image(url, label, tape_width, font, font_size, TRUE)

\* the command line: python print_label.py url label [--tape-width ...]
\* [--font ...] [--font-size ...] [--preview]
Main ==
    /\ pc = "ready"
    /\ pc' = "returned"
    /\ UNCHANGED <<fit_args, search, gui_vars>>
    /\ \E url \in Payloads, label \in Texts, tape_width \in TapeArgs,
          font \in Fonts \cup {"missing.ttf"}, font_size \in FontSizes,
          preview \in BOOLEAN, ok \in BOOLEAN :
          /\ call' = Args("main", url, label, <<>>, tape_width,
                          font, font_size, TRUE)
          /\ ret' = main(url, label, tape_width, font, font_size)
          /\ transport' =
                IF ret'.kind = "image" /\ ~preview
                THEN print_label(ret', tape_width, ok)
                ELSE <<>>

\* the caller is done with what the call gave it (it saved or printed the
\* image, or reported the error) and is ready for the next call
Release ==
    /\ pc = "returned"
    /\ pc' = "ready"
    /\ call' = [fn |-> "none"]
    /\ ret' = [kind |-> "none"]
    /\ transport' = <<>>
    /\ UNCHANGED <<fit_args, search, gui_vars>>

Next ==
    \/ CallCreateLabelImage
    \/ CallCreateLabelImageTemplate2
    \/ CallCreateLabelImageTemplate3
    \/ CallCreateTextOnlyLabel
    \/ CallCreateVerticalTextLabel
    \/ CallCreateLabelImageTemplate6
    \/ CallCreateShelfLabel
    \/ CallCreateStorageQrLabel
    \/ CallGetScaleFactor
    \/ Main
    \/ Release

Spec == Init /\ [][Next]_vars

(***************************************************************************)
(* Properties of the layout functions (Spec).                              *)
(***************************************************************************)
Returned(fns) == pc = "returned" /\ call.fn \in fns

ReturnedImage(fns) == Returned(fns) /\ ret.kind = "image"

Composers ==
    {"create_label_image", "create_label_image_template2",
     "create_label_image_template3", "create_text_only_label",
     "create_vertical_text_label", "create_label_image_template6",
     "create_shelf_label", "create_storage_qr_label"}

\* C1: every image a layout function returns has the height of its tape
\* class, 306, 413, 554 or 696 px for 29, 38, 50 and 62 mm, whatever the
\* text, payload, requested size and include_qr; no other height is produced.
C1_HeightIsTableValue ==
    ReturnedImage(Composers) =>
        /\ call.tape_width_mm \in {29, 38, 50, 62}
        /\ call.tape_width_mm = 29 => ret.height = 306
        /\ call.tape_width_mm = 38 => ret.height = 413
        /\ call.tape_width_mm = 50 => ret.height = 554
        /\ call.tape_width_mm = 62 => ret.height = 696

\* the storage-code layout returned an image on 62 mm tape
C1_Witness ==
    /\ ReturnedImage({"create_storage_qr_label"})
    /\ call.tape_width_mm = 62
    /\ call.include_qr
    /\ ret.height = 696

\* the size the rotated layouts fit for a text, all else as in the last call
RotatedFit(text) ==
    IF call.fn = "create_label_image_template3"
    THEN create_label_image_template3(call.qr_data, text, call.tape_width_mm,
             call.font_path, call.font_size, call.include_qr).font_size
    ELSE create_vertical_text_label(text, call.tape_width_mm,
             call.font_path).font_size

\* text b measures at least as wide as text a at every size of the search
NoNarrower(a, b) ==
    \A size \in Scaled(20, call.tape_width_mm)..ret.font_max :
        textbbox(a, call.font_path, size).width
            <= textbbox(b, call.font_path, size).width

\* C3: in the rotated and the vertical-only layout, a text that measures at
\* least as wide at every size is fitted a size that is no larger.
C3_FitMonotoneInText ==
    ReturnedImage({"create_label_image_template3",
                   "create_vertical_text_label"}) =>
        \A longer \in Texts :
            NoNarrower(call.text, longer) => RotatedFit(longer) <= ret.font_size

\* the free space left and right of the text element on the canvas
FreeLeft == ret.text_x

FreeRight == ret.width - (ret.text_x + ret.text_extent)

\* C6: without the code, the code adds nothing to the canvas width or the
\* offsets and the text is centred: the free space left and right of it
\* differ by at most 1 px.
C6_TextCentredWithoutCode ==
    (/\ ReturnedImage({"create_label_image", "create_label_image_template2",
                       "create_label_image_template3",
                       "create_label_image_template6"})
     /\ ~call.include_qr) =>
        /\ ret.qr_size = 0
        /\ FreeLeft - FreeRight \in {-1, 0, 1}

\* C7: in the rotated layout the text's vertical extent is at most the
\* height less the scaled outer padding on both sides, and the rotated text
\* image is pasted inside the canvas.
C7_RotatedTextInsideCanvas ==
    ReturnedImage({"create_label_image_template3"}) =>
        /\ ret.text_width <= ret.height - 2 * Scaled(15, call.tape_width_mm)
        /\ ret.text_y >= 0
        /\ ret.text_y + ret.rot_height <= ret.height

\* C8: the shelf layout's canvas is rotated word + gap + number + 2 paddings
\* wide, the number starts at padding + rotated word + gap, so word and
\* number do not overlap and both lie within [padding, width - padding].
C8_ShelfWidthAndNoOverlap ==
    ReturnedImage({"create_shelf_label"}) =>
        LET padding == Scaled(20, call.tape_width_mm)
            gap == Scaled(30, call.tape_width_mm)
        IN  /\ ret.rot_width = ret.text_height + Scaled(40, call.tape_width_mm)
            /\ ret.width = ret.rot_width + gap + ret.number_width + 2 * padding
            /\ ret.number_x = padding + ret.rot_width + gap
            /\ ret.text_x = padding
            /\ ret.text_x + ret.rot_width <= ret.number_x
            /\ ret.number_x + ret.number_width <= ret.width - padding

\* "SHELF" and "7" on 29 mm tape
C8_Witness ==
    /\ ReturnedImage({"create_shelf_label"})
    /\ call.text = <<"S", "H", "E", "L", "F">>
    /\ call.number = <<"7">>
    /\ call.tape_width_mm = 29
    /\ ret.number_width > 0
    /\ ret.rot_width > 0

\* C9: the text-only canvas is the text's width at the fitted size plus
\* 2*int(60*scale) wide (120 px at 29 mm), and the text has int(60*scale)
\* to its left and to its right.
C9_TextOnlyWidthAndMargins ==
    ReturnedImage({"create_text_only_label"}) =>
        LET margin == Scaled(60, call.tape_width_mm)
        IN  /\ ret.text_width
                 = textbbox(call.text, call.font_path, ret.font_size).width
            /\ ret.width = ret.text_width + 2 * margin
            /\ call.tape_width_mm = 29 => ret.width = ret.text_width + 120
            /\ FreeLeft = margin
            /\ FreeRight = margin

\* "BOX 1" on 29 mm tape
C9_Witness ==
    /\ ReturnedImage({"create_text_only_label"})
    /\ call.text = <<"B", "O", "X", " ", "1">>
    /\ call.tape_width_mm = 29
    /\ ret.height = 306
    /\ ret.text_width > 0

\* C10: a call with a tape width outside {29, 38, 50, 62} raises an error
\* that lists the four supported widths, before any bitmap is made; it
\* returns no image.
C10_UnsupportedTapeRaises ==
    (Returned(Composers) /\ call.tape_width_mm \notin {29, 38, 50, 62}) =>
        /\ ret.kind = "ValueError"
        /\ ret.supported = <<29, 38, 50, 62>>
        /\ ret.bitmaps = 0
        /\ ret.height = 0

\* the storage-code layout called for 12 mm tape
C10_Witness ==
    /\ Returned({"create_storage_qr_label"})
    /\ call.tape_width_mm = 12
    /\ ret.kind = "ValueError"

\* C11: for a tape width outside {29, 38, 50, 62} the scale function fails
\* with an error that lists the four supported widths; it returns no scale
\* factor for such a width.
C11_ScaleFailsOnUnsupportedTape ==
    (Returned({"get_scale_factor"}) /\ call.tape_width_mm \notin {29, 38, 50, 62}) =>
        /\ ret.kind # "float"
        /\ ret.supported = <<29, 38, 50, 62>>

\* C12: the scale factor of a supported width is its pixel height over 306:
\* exactly 1 at 29 mm, 696/306 at 62 mm, and greater than the factor of
\* every narrower supported width.
C12_ScaleIsPixelRatio ==
    (Returned({"get_scale_factor"}) /\ call.tape_width_mm \in {29, 38, 50, 62}) =>
        /\ ret.kind = "float"
        /\ ret.scale.den > 0
        /\ RatioEq(ret.scale, Ratio(TAPE_WIDTHS[call.tape_width_mm], 306))
        /\ call.tape_width_mm = 29 => ret.scale.num = ret.scale.den
        /\ call.tape_width_mm = 62 => RatioEq(ret.scale, Ratio(696, 306))
        /\ \A narrower \in {29, 38, 50, 62} :
              narrower < call.tape_width_mm =>
                  RatioLess(get_scale_factor(narrower), ret.scale)

\* the scale factor of 62 mm tape was asked for
C12_Witness ==
    /\ Returned({"get_scale_factor"})
    /\ call.tape_width_mm = 62
    /\ ret.kind = "float"
    /\ ret.scale = Ratio(696, 306)

\* the layout functions that take a requested font size
SizedComposers ==
    {"create_label_image", "create_label_image_template2",
     "create_label_image_template3", "create_text_only_label",
     "create_label_image_template6"}

\* C13: in the horizontal, compact-vertical, rotated, text-only and
\* text-above-code layouts the font size the text is drawn in is at most
\* the requested size times the scale factor of the tape width.
C13_FontSizeWithinRequest ==
    ReturnedImage(SizedComposers) =>
        /\ ret.font_size <= ret.font_max
        /\ ret.font_size * 306
               <= call.font_size * TAPE_WIDTHS[call.tape_width_mm]

\* the text-only layout, asked for size 250 on 62 mm tape, fitted a smaller
\* size than 250 times the scale factor
C13_Witness ==
    /\ ReturnedImage({"create_text_only_label"})
    /\ call.font_size = 250
    /\ call.tape_width_mm = 62
    /\ 0 < ret.font_size
    /\ ret.font_size < ret.font_max

\* C14: the border's stroke is max(2, int(2*scale)) px wide: 2, 2, 3 and 4
\* px at 29, 38, 50 and 62 mm, so at least 2 and never narrower on a wider
\* tape; the rectangle's corners are half the stroke width (integer
\* division) in from each of the four edges, inside the canvas.
C14_BorderStrokeAndInset ==
    ReturnedImage(Composers) =>
        LET half == ret.border_width \div 2
        IN  /\ ret.border_width
                 = Max2(2, (2 * TAPE_WIDTHS[call.tape_width_mm]) \div 306)
            /\ ret.border_width >= 2
            /\ ret.border_width
                 = (29 :> 2 @@ 38 :> 2 @@ 50 :> 3 @@ 62 :> 4)[call.tape_width_mm]
            /\ \A narrower \in {29, 38, 50, 62} :
                  narrower < call.tape_width_mm =>
                      border_width(narrower) <= ret.border_width
            /\ ret.border.x0 = half
            /\ ret.border.y0 = half
            /\ (ret.width - 1) - ret.border.x1 = half
            /\ (ret.height - 1) - ret.border.y1 = half
            /\ 0 <= ret.border.x0 /\ ret.border.x0 <= ret.border.x1
            /\ ret.border.x1 <= ret.width - 1
            /\ 0 <= ret.border.y0 /\ ret.border.y0 <= ret.border.y1
            /\ ret.border.y1 <= ret.height - 1

\* the horizontal layout on 62 mm tape: a stroke of 4 px, 2 px in
C14_Witness ==
    /\ ReturnedImage({"create_label_image"})
    /\ call.tape_width_mm = 62
    /\ ret.border_width = 4
    /\ ret.border.x0 = 2
    /\ ret.border.y1 = 693

\* the layout functions that draw a code when include_qr is set
CodeComposers ==
    {"create_label_image", "create_label_image_template2",
     "create_label_image_template3", "create_label_image_template6",
     "create_storage_qr_label"}

\* C15: no image is composed with include_qr set and an empty payload: a
\* direct call or a command line that asks for it is rejected before any
\* bitmap is made.
C15_NoCodeWithoutPayload ==
    (/\ Returned(CodeComposers \cup {"main"})
     /\ call.include_qr
     /\ call.qr_data = "") =>
        /\ ret.kind # "image"
        /\ ret.bitmaps = 0

\* C16: the command line rejects an empty label text before it calls a
\* layout function: no image is composed for it and nothing is printed.
C16_NoEmptyTextFromCommandLine ==
    (Returned({"main"}) /\ call.text = <<>>) =>
        /\ ret.kind # "image"
        /\ ret.bitmaps = 0
        /\ transport = <<>>

\* C22: in templates 2 and 6 with the code included, the stacked block of
\* code, gap and text at the fitted size lies within the label height: it
\* starts at y >= 0 and ends at or above the tape's pixel height.
C22_StackedBlockWithinHeight ==
    (/\ ReturnedImage({"create_label_image_template2",
                       "create_label_image_template6"})
     /\ call.include_qr) =>
        /\ Min2(ret.qr_y, ret.text_y) >= 0
        /\ Max2(ret.qr_y + ret.qr_size, ret.text_y + ret.text_height)
              <= TAPE_WIDTHS[call.tape_width_mm]

\* C23: in the shelf layout, a word whose width at the fitted size is within
\* its budget (height - 2 * padding) gives a rotated word image no higher
\* than the canvas, pasted at a vertical offset >= 0.
C23_ShelfWordWithinCanvas ==
    (/\ ReturnedImage({"create_shelf_label"})
     /\ ret.text_width <= ret.height - 2 * ret.padding) =>
        /\ ret.rot_height <= ret.height
        /\ ret.text_y >= 0

\* C24: in the vertical-only layout, a text whose width at the fitted size
\* is within the budget height - 2 * outer_margin - 2 * text_img_padding
\* gives a rotated image no higher than height - 2 * outer_margin, pasted
\* with at least outer_margin of clearance above and below.
C24_VerticalTextWithinMargins ==
    (/\ ReturnedImage({"create_vertical_text_label"})
     /\ ret.text_width <= ret.height - 2 * ret.padding - 2 * ret.gap) =>
        /\ ret.rot_height = ret.text_width + 2 * ret.gap
        /\ ret.rot_height <= ret.height - 2 * ret.padding
        /\ ret.text_y >= ret.padding
        /\ ret.text_y + ret.rot_height <= ret.height - ret.padding

\* the search shrank a text to a size at which it fills its budget exactly
C24_Witness ==
    /\ ReturnedImage({"create_vertical_text_label"})
    /\ ret.font_size < ret.font_max
    /\ ret.text_width = ret.height - 2 * ret.padding - 2 * ret.gap
    /\ ret.text_y = ret.padding

\* C25: in the storage layout with the code, a caption whose height at the
\* fitted size is within min(0.8 * (height - code - 2 * padding),
\* 0.2 * height) gives a stacked left section (code of side int(0.65 *
\* height), caption below) that starts at y >= 0 and ends at or above the
\* bottom edge.
C25_StorageLeftSectionWithinCanvas ==
    (/\ ReturnedImage({"create_storage_qr_label"})
     /\ call.include_qr
     /\ 10 * ret.text_height
           <= Min2(8 * (ret.height - ret.qr_size - 2 * ret.padding),
                   2 * ret.height)) =>
        /\ ret.qr_size = (65 * ret.height) \div 100
        /\ ret.qr_y >= 0
        /\ ret.text_y >= ret.qr_y + ret.qr_size
        /\ ret.text_y + ret.text_height <= ret.height

\* a caption shrunk by the search to a height within its budget, below a code
C25_Witness ==
    /\ ReturnedImage({"create_storage_qr_label"})
    /\ call.include_qr
    /\ ret.font_size < ret.font_max
    /\ ret.text_width > 0
    /\ 10 * ret.text_height
          <= Min2(8 * (ret.height - ret.qr_size - 2 * ret.padding),
                  2 * ret.height)
    /\ 10 * (ret.text_height + 2)
          > Min2(8 * (ret.height - ret.qr_size - 2 * ret.padding),
                 2 * ret.height)

(***************************************************************************)
(* SpecFit: the loop, stepped.                                             *)
(***************************************************************************)
Sizes == 0..MaxSize

Measures == [Sizes -> 0..MaxMeasure]

InitFit ==
    /\ call = [fn |-> "none"]
    /\ ret = [kind |-> "none"]
    /\ \E min0 \in Sizes, max0 \in Sizes, m \in Measures, b \in 0..MaxMeasure :
          /\ fit_args = [min0 |-> min0, max0 |-> max0, measure |-> m, budget |-> b]
          /\ search = FitStart(min0, max0)
    /\ pc = "loop"
    /\ InitWindow

LoopIterate ==
    /\ pc = "loop"
    /\ FitContinue(search)
    /\ search' = FitStep(search, fit_args.measure, fit_args.budget)
    /\ UNCHANGED <<call, ret, fit_args, pc, transport, gui_vars>>

LoopExit ==
    /\ pc = "loop"
    /\ ~FitContinue(search)
    /\ pc' = "done"
    /\ UNCHANGED <<call, ret, fit_args, search, transport, gui_vars>>

NextFit == LoopIterate \/ LoopExit

\* the loop is sequential code: a step that can be taken is taken
SpecFit == InitFit /\ [][NextFit]_vars /\ WF_vars(NextFit)

(***************************************************************************)
(* Properties of the font-fit search (SpecFit).                            *)
(***************************************************************************)
Monotone(measure) ==
    \A a \in DOMAIN measure, b \in DOMAIN measure :
        a <= b => measure[a] <= measure[b]

\* the sizes of the search range that satisfy the budget
Fitting == {s \in fit_args.min0..fit_args.max0 :
                fit_args.measure[s] <= fit_args.budget}

Largest(S) == CHOOSE s \in S : \A t \in S : t <= s

Bracket(s) == s.max_font_size - s.min_font_size

\* C2: for a monotone measure, whenever some size of [min, max] satisfies the
\* budget, the search returns the largest size of [min, max] that does.
C2_ReturnsLargestFitting ==
    (pc = "done" /\ Monotone(fit_args.measure) /\ Fitting # {})
        => search.optimal_font_size = Largest(Fitting)

C5_LoopTerminates ==
    /\ [][pc = "loop" =>
            IF FitContinue(search)
            THEN pc' = "loop" /\ Bracket(search') < Bracket(search)
            ELSE pc' = "done" /\ search' = search]_vars
    /\ [](pc = "loop" => <>(pc = "done"))

\* a search over a measure that is not monotone, ended after two iterations
C5_Witness ==
    /\ pc = "done"
    /\ ~Monotone(fit_args.measure)
    /\ Cardinality(search.tested) >= 2
    /\ Bracket(search) <= 1

(***************************************************************************)
(* The window of app/label_printer_gui.py.  Texts typed into it are        *)
(* sequences of characters; dialog holds the message boxes of the last     *)
(* user action, transport what that action handed to the printer.          *)
(***************************************************************************)
lib_vars == <<call, ret, fit_args, search, pc>>

\* a QMessageBox with its title; row is the table row it names, 0 for none
Box(title, row) == [title |-> title, row |-> row]

Shown(title) == \E i \in DOMAIN dialog : dialog[i].title = title

\* str.strip() of a text: leading and trailing blanks removed
RECURSIVE lstrip(_)
lstrip(text) ==
    IF text # <<>> /\ Head(text) = " " THEN lstrip(Tail(text)) ELSE text

RECURSIVE rstrip(_)
rstrip(text) ==
    IF text # <<>> /\ text[Len(text)] = " "
    THEN rstrip(SubSeq(text, 1, Len(text) - 1))
    ELSE text

strip(text) == rstrip(lstrip(text))

\* the layout function a template combo's data selects
Compose(template, url, text, tape_width_mm, font_path, font_size, include_qr) ==
    CASE template = 1 ->
           create_label_image(url, text, tape_width_mm, font_path, font_size, include_qr)
      [] template = 2 ->
           create_label_image_template2(url, text, tape_width_mm, font_path, font_size, include_qr)
      [] template = 3 ->
           create_label_image_template3(url, text, tape_width_mm, font_path, font_size, include_qr)
      [] template = 4 ->
           create_text_only_label(text, tape_width_mm, font_path, font_size)

Templates == {1, 2, 3, 4}

\* the values of the tape width combos: sorted(TAPE_WIDTHS.keys())
TapeChoices == DOMAIN TAPE_WIDTHS

\* values of the font size spin boxes, within their range 40..250
SpinSizes == {100, 250}

(***************************************************************************)
(* SpecBatch: the "Batch Mode" tab.                                        *)
(***************************************************************************)
\* only the cells of the first MaxEditRows rows are typed into
MaxEditRows == 2

UrlCells == {<<>>, <<"u">>}

LabelCells == {<<>>, <<"7">>}

\* a faulty variant of BatchFull that lets one row more in
BatchFullAbove(batch_table) == Len(batch_table) > 10

\* self.batch_table.rowCount() >= 10
BatchFull(batch_table) == Len(batch_table) >= 10

\* the row add_batch_label inserts: two empty items and a copies combo set
\* to the last used value
NewRow(last_copies) == [url |-> <<>>, label |-> <<>>, copies |-> last_copies]

AddBatchLabel ==
    /\ transport' = <<>>
    /\ UNCHANGED <<lib_vars, single_tab>>
    /\ IF BatchFull(batch_tab.batch_table)
       THEN /\ dialog' = <<Box("Batch Full", 0)>>
            /\ UNCHANGED batch_tab
       ELSE /\ dialog' = <<>>
            /\ batch_tab' =
                 [batch_tab EXCEPT
                    !.batch_table = Append(@, NewRow(batch_tab.last_copies))]

\* the user types into a URL or label cell, which makes its row current
EditBatchCell ==
    /\ transport' = <<>>
    /\ dialog' = <<>>
    /\ UNCHANGED <<lib_vars, single_tab>>
    /\ \E row \in 1..Min2(Len(batch_tab.batch_table), MaxEditRows) :
          \/ \E url \in UrlCells :
                batch_tab' = [batch_tab EXCEPT !.batch_table[row].url = url,
                                               !.current_row = row - 1]
          \/ \E label \in LabelCells :
                batch_tab' = [batch_tab EXCEPT !.batch_table[row].label = label,
                                               !.current_row = row - 1]

\* the user clicks a row
SelectBatchRow ==
    /\ transport' = <<>>
    /\ dialog' = <<>>
    /\ UNCHANGED <<lib_vars, single_tab>>
    /\ \E row \in 1..Len(batch_tab.batch_table) :
          batch_tab' = [batch_tab EXCEPT !.current_row = row - 1]

\* the user changes the template or the tape width of the shared settings;
\* the font size stays at the spin box's initial 100
SetBatchSettings ==
    /\ transport' = <<>>
    /\ dialog' = <<>>
    /\ UNCHANGED <<lib_vars, single_tab>>
    /\ \/ \E template \in Templates :
             batch_tab' = [batch_tab EXCEPT !.batch_template_combo = template]
       \/ \E tape_width \in TapeChoices :
             batch_tab' = [batch_tab EXCEPT !.batch_tape_width = tape_width]

\* the table without its row at index current_row (0-based)
RemoveRow(batch_table, current_row) ==
    SubSeq(batch_table, 1, current_row)
        \o SubSeq(batch_table, current_row + 2, Len(batch_table))

\* removeRow leaves the row that took the removed row's place current, the
\* last row if there is none, and no row in an empty table
RemoveBatchLabel ==
    /\ transport' = <<>>
    /\ UNCHANGED <<lib_vars, single_tab>>
    /\ IF batch_tab.current_row >= 0
       THEN /\ dialog' = <<>>
            /\ batch_tab' =
                 [batch_tab EXCEPT
                    !.batch_table = RemoveRow(@, batch_tab.current_row),
                    !.current_row =
                        Min2(@, Len(batch_tab.batch_table) - 2)]
       ELSE /\ dialog' = <<Box("No Selection", 0)>>
            /\ UNCHANGED batch_tab

ClearBatch ==
    /\ transport' = <<>>
    /\ UNCHANGED <<lib_vars, single_tab>>
    /\ IF Len(batch_tab.batch_table) = 0
       THEN /\ dialog' = <<>>
            /\ UNCHANGED batch_tab
       ELSE /\ dialog' = <<Box("Clear Batch", 0)>>
            /\ \E reply \in {"Yes", "No"} :
                  IF reply = "Yes"
                  THEN batch_tab' = [batch_tab EXCEPT !.batch_table = <<>>,
                                                      !.current_row = -1]
                  ELSE UNCHANGED batch_tab

\* a faulty variant of FirstMissing that looks at the first row only
FirstMissingTopRow(batch_table, row) ==
    IF Len(batch_table) > 0
       /\ (strip(batch_table[1].url) = <<>> \/ strip(batch_table[1].label) = <<>>)
    THEN 1
    ELSE 0

\* the first row (1-based) whose stripped URL or label text is empty, 0 if
\* every row has both
RECURSIVE FirstMissing(_, _)
FirstMissing(batch_table, row) ==
    IF row > Len(batch_table) THEN 0
    ELSE IF strip(batch_table[row].url) = <<>>
            \/ strip(batch_table[row].label) = <<>>
         THEN row
         ELSE FirstMissing(batch_table, row + 1)

\* the image of one row under the shared settings, always with DEFAULT_FONT
\* and the layout functions' default include_qr=True
BatchImage(tab, row) ==
    Compose(tab.batch_template_combo, strip(tab.batch_table[row].url),
            strip(tab.batch_table[row].label), tab.batch_tape_width,
            DEFAULT_FONT, tab.batch_font_size, TRUE)

\* the combined preview goes to the preview area only
PreviewBatch ==
    /\ transport' = <<>>
    /\ UNCHANGED <<lib_vars, single_tab>>
    /\ LET batch_table == batch_tab.batch_table
           missing == FirstMissing(batch_table, 1)
       IN  IF Len(batch_table) = 0
           THEN /\ dialog' = <<Box("Empty Batch", 0)>>
                /\ UNCHANGED batch_tab
           ELSE IF missing # 0
           THEN /\ dialog' = <<Box("Missing Data", missing)>>
                /\ UNCHANGED batch_tab
           ELSE IF \E row \in 1..Len(batch_table) :
                      BatchImage(batch_tab, row).kind # "image"
           THEN /\ dialog' = <<Box("Preview Error", 0)>>
                /\ UNCHANGED batch_tab
           ELSE /\ dialog' = <<>>
                /\ UNCHANGED batch_tab

\* the transmissions of the print loop from item idx on, in order: each
\* label's image once per copy
RECURSIVE BatchJobs(_, _)
BatchJobs(tab, idx) ==
    IF idx > Len(tab.batch_table) THEN <<>>
    ELSE [n \in 1..tab.batch_table[idx].copies |->
             [item |-> idx]
                 @@ Transmission(BatchImage(tab, idx), tab.batch_tape_width, TRUE)]
         \o BatchJobs(tab, idx + 1)

\* a faulty variant of Interrupted that goes on with the jobs after the
\* one that raised
InterruptedGoesOn(jobs, fault) ==
    [n \in DOMAIN jobs |-> IF n = fault THEN [jobs[n] EXCEPT !.ok = FALSE]
                                        ELSE jobs[n]]

\* what reaches convert() and send() when the fault-th transmission raises
\* (fault = 0: none does): the loop stops there
Interrupted(jobs, fault) ==
    IF fault = 0 THEN jobs
    ELSE [n \in 1..fault |-> IF n = fault THEN [jobs[n] EXCEPT !.ok = FALSE]
                                          ELSE jobs[n]]

PrintBatch ==
    /\ UNCHANGED <<lib_vars, single_tab, batch_tab>>
    /\ LET batch_table == batch_tab.batch_table
           missing == FirstMissing(batch_table, 1)
           jobs == BatchJobs(batch_tab, 1)
       IN  IF Len(batch_table) = 0
           THEN /\ dialog' = <<Box("Empty Batch", 0)>>
                /\ transport' = <<>>
           ELSE IF missing # 0
           THEN /\ dialog' = <<Box("Missing Data", missing)>>
                /\ transport' = <<>>
           ELSE \E reply \in {"Yes", "No"} :
                  IF reply # "Yes"
                  THEN /\ dialog' = <<Box("Confirm Batch Print", 0)>>
                       /\ transport' = <<>>
                  ELSE \E fault \in 0..Len(jobs) :
                         /\ transport' = Interrupted(jobs, fault)
                         /\ dialog' =
                              <<Box("Confirm Batch Print", 0),
                                IF fault = 0 THEN Box("Success", 0)
                                ELSE Box("Print Error", 0)>>

NextBatch ==
    \/ AddBatchLabel
    \/ EditBatchCell
    \/ SelectBatchRow
    \/ SetBatchSettings
    \/ RemoveBatchLabel
    \/ ClearBatch
    \/ PreviewBatch
    \/ PrintBatch

SpecBatch == Init /\ [][NextBatch]_vars

(***************************************************************************)
(* Properties of the batch tab (SpecBatch).                                *)
(***************************************************************************)
\* the items of the batch whose transmission raised
FailedItems == {transport[n].item : n \in {m \in DOMAIN transport : ~transport[m].ok}}

\* the items of the batch that reached the printer
PrintedItems == {transport[n].item : n \in {m \in DOMAIN transport : transport[m].ok}}

\* C17: when composing or transmitting an item of a batch fails, every other
\* item is still transmitted and the error report names the item that
\* failed.
C17_BatchFailureIsLocal ==
    (Shown("Confirm Batch Print") /\ FailedItems # {}) =>
        /\ \A item \in 1..Len(batch_tab.batch_table) :
              item \notin FailedItems => item \in PrintedItems
        /\ \E i \in DOMAIN dialog : dialog[i].row \in FailedItems

\* C19: the batch table never holds more than 10 rows, and Add Label at 10
\* rows leaves the table as it is and shows the "Batch Full" warning.
C19_BatchAtMostTenRows ==
    /\ [](Len(batch_tab.batch_table) <= 10)
    /\ [][(AddBatchLabel /\ Len(batch_tab.batch_table) = 10) =>
             (batch_tab' = batch_tab /\ dialog' = <<Box("Batch Full", 0)>>)]_vars

\* Add Label was pressed on a table of 10 rows
C19_Witness ==
    /\ Len(batch_tab.batch_table) = 10
    /\ Shown("Batch Full")

\* the rows of the batch table without a URL or without a label text
IncompleteRows ==
    {row \in 1..Len(batch_tab.batch_table) :
        \/ strip(batch_tab.batch_table[row].url) = <<>>
        \/ strip(batch_tab.batch_table[row].label) = <<>>}

\* C26: a batch with a row whose URL or label text is empty after trimming
\* is not printed at all: Print Batch transmits nothing, not even the rows
\* before the incomplete one, and names the first incomplete row.
C26_BatchValidatedBeforePrinting ==
    /\ [](IncompleteRows # {} => transport = <<>>)
    /\ [][(PrintBatch /\ IncompleteRows # {}) =>
             /\ transport' = <<>>
             /\ \E row \in IncompleteRows :
                   /\ dialog' = <<Box("Missing Data", row)>>
                   /\ \A other \in IncompleteRows : row <= other]_vars

\* a batch whose first row is complete and whose second row is not was
\* turned down
C26_Witness ==
    /\ dialog = <<Box("Missing Data", 2)>>
    /\ 1 \notin IncompleteRows
    /\ Len(batch_tab.batch_table) >= 3
    /\ transport = <<>>

(***************************************************************************)
(* SpecSingle: the "QR + Text" tab, with the copies widgets left at their  *)
(* initial single copy.                                                    *)
(***************************************************************************)
UrlInputs == {<<>>, <<"u">>}

LabelInputs == {<<>>, <<" ">>, <<"7">>}

\* the data of the prefix combo's items "None" and "Box"
Prefixes == {<<>>, <<"B", "o", "x">>}

\* a faulty variant of on_input_changed that only clears the display
on_input_changed_keeps_image(tab) ==
    [tab EXCEPT !.preview_label =
                    IF @ = "pixmap"
                    THEN "Preview cleared - generate new preview or print directly"
                    ELSE @]

\* on_input_changed: the cached preview is dropped, and a displayed preview
\* gives way to the text "Preview cleared - ..."
on_input_changed(tab) ==
    [tab EXCEPT !.preview_image = None,
                !.preview_label =
                    IF @ = "pixmap"
                    THEN "Preview cleared - generate new preview or print directly"
                    ELSE @]

\* get_final_label_text: "prefix text" if both are there, else the text
get_final_label_text(tab) ==
    LET text == strip(tab.label_input)
    IN  IF tab.prefix_combo # <<>> /\ text # <<>>
        THEN tab.prefix_combo \o <<" ">> \o text
        ELSE text

\* the texts of the quick copy buttons, in the order of self.copy_buttons
QuickCopies == <<1, 4, 5, 6, 8>>

\* get_copies: the first checked quick button, else the dropdown's item if
\* it is not "Other" (item i carries the data i), else 1
get_copies(tab) ==
    LET checked == {i \in DOMAIN tab.copy_buttons : tab.copy_buttons[i]}
    IN  IF checked # {}
        THEN QuickCopies[CHOOSE i \in checked : \A j \in checked : i <= j]
        ELSE IF tab.copies_combo > 0 THEN tab.copies_combo
        ELSE 1

\* statusBar().showMessage(message)
StatusMessage(message) == [title |-> message, row |-> 0]

\* the message box of the validation in generate_preview and print_label,
\* none if label and URL are there
MissingInput(tab) ==
    IF strip(tab.label_input) = <<>> THEN <<Box("Missing Input", 0)>>
    ELSE IF tab.include_qr_checkbox /\ strip(tab.url_input) = <<>>
    THEN <<Box("Missing Input", 0)>>
    ELSE <<>>

\* the image generate_preview and print_label compose from the widgets
SingleImage(tab) ==
    Compose(tab.template_combo,
            IF tab.include_qr_checkbox THEN strip(tab.url_input) ELSE <<>>,
            get_final_label_text(tab), tab.tape_width_combo,
            tab.font_path_label, tab.font_size_spin, tab.include_qr_checkbox)

\* the user edits the URL (the field is disabled while the code is off) or
\* the label text: textChanged calls on_input_changed
EditInput ==
    /\ transport' = <<>>
    /\ dialog' = <<>>
    /\ UNCHANGED <<lib_vars, batch_tab>>
    /\ \/ /\ single_tab.include_qr_checkbox
          /\ \E url \in UrlInputs \ {single_tab.url_input} :
                single_tab' =
                    on_input_changed([single_tab EXCEPT !.url_input = url])
       \/ \E label \in LabelInputs \ {single_tab.label_input} :
             single_tab' =
                 on_input_changed([single_tab EXCEPT !.label_input = label])

\* on_qr_checkbox_changed
ToggleQrCheckbox ==
    /\ transport' = <<>>
    /\ dialog' = <<>>
    /\ UNCHANGED <<lib_vars, batch_tab>>
    /\ single_tab' =
          on_input_changed([single_tab EXCEPT !.include_qr_checkbox = ~@])

\* on_prefix_changed, and the template combo's currentIndexChanged
SelectPrefixOrTemplate ==
    /\ transport' = <<>>
    /\ dialog' = <<>>
    /\ UNCHANGED <<lib_vars, batch_tab>>
    /\ \/ \E prefix \in Prefixes \ {single_tab.prefix_combo} :
             single_tab' =
                 on_input_changed([single_tab EXCEPT !.prefix_combo = prefix])
       \/ \E template \in Templates \ {single_tab.template_combo} :
             single_tab' =
                 on_input_changed([single_tab EXCEPT !.template_combo = template])

\* the tape width combo and the font size spin box have no handler, and
\* select_font only sets the font path label: the cached preview stays
ChangePrinterSettings ==
    /\ transport' = <<>>
    /\ dialog' = <<>>
    /\ UNCHANGED <<lib_vars, batch_tab>>
    /\ \/ \E tape_width \in TapeChoices \ {single_tab.tape_width_combo} :
             single_tab' = [single_tab EXCEPT !.tape_width_combo = tape_width]
       \/ \E font_size \in SpinSizes \ {single_tab.font_size_spin} :
             single_tab' = [single_tab EXCEPT !.font_size_spin = font_size]
       \/ \E font_path \in Fonts \ {single_tab.font_path_label} :
             single_tab' = [single_tab EXCEPT !.font_path_label = font_path]

GeneratePreview ==
    /\ transport' = <<>>
    /\ UNCHANGED <<lib_vars, batch_tab>>
    /\ IF MissingInput(single_tab) # <<>>
       THEN /\ dialog' = MissingInput(single_tab)
            /\ UNCHANGED single_tab
       ELSE IF SingleImage(single_tab).kind # "image"
       THEN /\ dialog' = <<Box("Preview Error", 0)>>
            /\ UNCHANGED single_tab
       ELSE /\ dialog' = <<>>
            /\ single_tab' = [single_tab EXCEPT
                                !.preview_image = SingleImage(single_tab),
                                !.preview_label = "pixmap",
                                !.print_button_enabled = TRUE]

\* the copies of the print loop: the cached image with the tape width combo's
\* value of now, until the fault-th transmission raises
PrintJobs(tab, image, fault) ==
    Interrupted([n \in 1..get_copies(tab) |->
                    Transmission(image, tab.tape_width_combo, TRUE)], fault)

\* print_label: composes only if there is no cached preview, then asks and
\* prints the cached image
PrintLabel ==
    /\ UNCHANGED <<lib_vars, batch_tab>>
    /\ IF single_tab.preview_image = None /\ MissingInput(single_tab) # <<>>
       THEN /\ dialog' = MissingInput(single_tab)
            /\ transport' = <<>>
            /\ UNCHANGED single_tab
       ELSE IF single_tab.preview_image = None
               /\ SingleImage(single_tab).kind # "image"
       THEN /\ dialog' = <<Box("Error", 0)>>
            /\ transport' = <<>>
            /\ UNCHANGED single_tab
       ELSE LET image == IF single_tab.preview_image = None
                         THEN SingleImage(single_tab)
                         ELSE single_tab.preview_image
            IN  /\ single_tab' = [single_tab EXCEPT !.preview_image = image]
                /\ \E reply \in {"Yes", "No"} :
                      IF reply # "Yes"
                      THEN /\ dialog' = <<Box("Confirm Print", 0)>>
                           /\ transport' = <<>>
                      ELSE \E fault \in 0..get_copies(single_tab) :
                             /\ transport' = PrintJobs(single_tab, image, fault)
                             /\ dialog' =
                                  IF fault = 0
                                  THEN <<Box("Confirm Print", 0),
                                         StatusMessage("Print complete!"),
                                         Box("Success", 0)>>
                                  ELSE <<Box("Confirm Print", 0),
                                         Box("Print Error", 0),
                                         StatusMessage("Print failed")>>

\* clear_form: both fields cleared (their textChanged drops the preview,
\* as the handler itself does), print button disabled, copies back to 1
ClearForm ==
    /\ transport' = <<>>
    /\ dialog' = <<>>
    /\ UNCHANGED <<lib_vars, batch_tab>>
    /\ single_tab' = [single_tab EXCEPT !.url_input = <<>>,
                                        !.label_input = <<>>,
                                        !.preview_image = None,
                                        !.preview_label = "Generate a preview to see your label",
                                        !.print_button_enabled = FALSE,
                                        !.copy_buttons =
                                            [i \in DOMAIN @ |-> i = 1],
                                        !.copies_combo = 0,
                                        !.current_copies = 1]

NextSingle ==
    \/ EditInput
    \/ ToggleQrCheckbox
    \/ SelectPrefixOrTemplate
    \/ ChangePrinterSettings
    \/ GeneratePreview
    \/ PrintLabel
    \/ ClearForm

SpecSingle == Init /\ [][NextSingle]_vars

(***************************************************************************)
(* Properties of the "QR + Text" tab (SpecSingle).                         *)
(***************************************************************************)
\* C20: every image handed to the printer is as high as the tape width
\* passed along with it: 306, 413, 554 or 696 px for 29, 38, 50 and 62 mm.
C20_PrintedHeightMatchesTape ==
    \A n \in DOMAIN transport :
        transport[n].image.height
            = (29 :> 306 @@ 38 :> 413 @@ 50 :> 554 @@ 62 :> 696)[transport[n].label]

\* the inputs of the tab that on_input_changed listens to
ComposedFrom(tab) ==
    <<tab.url_input, tab.label_input, tab.prefix_combo, tab.template_combo,
      tab.include_qr_checkbox>>

\* C21: a change of the URL, the label text, the prefix, the template or the
\* include-QR checkbox leaves no cached preview image, a cached image is one
\* composed from the inputs the widgets show now, and a print that finds no
\* cached image transmits the image composed from the inputs of that moment.
C21_InputChangeDropsPreview ==
    /\ [][ComposedFrom(single_tab') # ComposedFrom(single_tab) =>
             single_tab'.preview_image = None]_vars
    /\ [](single_tab.preview_image # None =>
             \E tape_width \in {t \in TapeChoices : TAPE_WIDTHS[t]
                                     = single_tab.preview_image.height},
                font_size \in SpinSizes, font_path \in Fonts :
                single_tab.preview_image =
                    SingleImage([single_tab EXCEPT
                                    !.tape_width_combo = tape_width,
                                    !.font_size_spin = font_size,
                                    !.font_path_label = font_path]))
    /\ [][single_tab.preview_image = None =>
             \A n \in DOMAIN transport' :
                 transport'[n].image = SingleImage(single_tab)]_vars

\* a label was printed after a change of the inputs had cleared a displayed
\* preview
C21_Witness ==
    /\ single_tab.preview_label
          = "Preview cleared - generate new preview or print directly"
    /\ transport # <<>>
    /\ single_tab.preview_image = SingleImage(single_tab)

(***************************************************************************)
(* SpecCopies: the copies widgets of the "QR + Text" tab and the print     *)
(* loop over the copies.                                                   *)
(***************************************************************************)
\* the items of copies_combo: "Other" (0), then 1..20
CopiesItems == 0..20

\* a faulty variant of set_copies that does not uncheck the other buttons
set_copies_keeps_others(tab, count) ==
    [tab EXCEPT !.copy_buttons =
                    [i \in DOMAIN @ |-> @[i] \/ QuickCopies[i] = count],
                !.copies_combo = 0,
                !.current_copies = count]

\* set_copies: all buttons unchecked, the one with the count checked, the
\* dropdown back to "Other" (whose currentIndexChanged does nothing at 0)
set_copies(tab, count) ==
    [tab EXCEPT !.copy_buttons = [i \in DOMAIN @ |-> QuickCopies[i] = count],
                !.copies_combo = 0,
                !.current_copies = count]

\* on_copies_combo_changed: an item other than "Other" unchecks the buttons
on_copies_combo_changed(tab) ==
    IF tab.copies_combo > 0
    THEN [tab EXCEPT !.copy_buttons = [i \in DOMAIN @ |-> FALSE],
                     !.current_copies = tab.copies_combo]
    ELSE tab

\* a click on one of the quick copy buttons
SetCopies ==
    /\ transport' = <<>>
    /\ dialog' = <<>>
    /\ UNCHANGED <<lib_vars, batch_tab>>
    /\ \E i \in DOMAIN QuickCopies :
          single_tab' = set_copies(single_tab, QuickCopies[i])

\* the user picks another item of the copies dropdown
SelectCopies ==
    /\ transport' = <<>>
    /\ dialog' = <<>>
    /\ UNCHANGED <<lib_vars, batch_tab>>
    /\ \E index \in CopiesItems \ {single_tab.copies_combo} :
          single_tab' =
              on_copies_combo_changed([single_tab EXCEPT !.copies_combo = index])

NextCopies ==
    \/ EditInput
    \/ SetCopies
    \/ SelectCopies
    \/ PrintLabel
    \/ ClearForm

SpecCopies == Init /\ [][NextCopies]_vars

(***************************************************************************)
(* Properties of the copies widgets and the print loop (SpecCopies).       *)
(***************************************************************************)
\* C27: a confirmed print sends the copies one after another: without a
\* failure exactly get_copies() transmissions happen and success is
\* reported; when the k-th fails it is the last one, success is not reported
\* and the status is "Print failed"; a declined print sends nothing.
C27_CopiesSentUntilFailure ==
    LET copies == get_copies(single_tab)
        failed == {n \in DOMAIN transport : ~transport[n].ok}
    IN  /\ Len(transport) <= copies
        /\ \A n \in DOMAIN transport :
              /\ transport[n].image = single_tab.preview_image
              /\ transport[n].label = single_tab.tape_width_combo
        /\ Shown("Success") <=> (Len(transport) = copies /\ failed = {})
        /\ Shown("Success") => ~Shown("Print failed") /\ ~Shown("Print Error")
        /\ failed # {} <=> Shown("Print failed")
        /\ failed # {} => failed = {Len(transport)} /\ Shown("Print Error")
        /\ dialog = <<Box("Confirm Print", 0)>> => transport = <<>>
        /\ ~Shown("Confirm Print") => transport = <<>>

\* the second of four copies failed
C27_Witness ==
    /\ get_copies(single_tab) = 4
    /\ Len(transport) = 2
    /\ transport[1].ok /\ ~transport[2].ok
    /\ Shown("Print failed")

\* the quick copy buttons that are checked
CheckedButtons == {i \in DOMAIN QuickCopies : single_tab.copy_buttons[i]}

\* C29: at most one quick copy button is checked, a checked button implies
\* that the dropdown shows "Other", get_copies() is the checked button's
\* value, else the dropdown's value, else 1, and it is always in 1..20.
C29_CopiesSelectionConsistent ==
    /\ Cardinality(CheckedButtons) <= 1
    /\ CheckedButtons # {} => single_tab.copies_combo = 0
    /\ \A i \in CheckedButtons : get_copies(single_tab) = QuickCopies[i]
    /\ (CheckedButtons = {} /\ single_tab.copies_combo > 0) =>
          get_copies(single_tab) = single_tab.copies_combo
    /\ (CheckedButtons = {} /\ single_tab.copies_combo = 0) =>
          get_copies(single_tab) = 1
    /\ get_copies(single_tab) \in 1..20

\* the quick copy button "6" was clicked
C29_Witness ==
    /\ CheckedButtons = {4}
    /\ single_tab.current_copies = 6
    /\ single_tab.copies_combo = 0
    /\ get_copies(single_tab) = 6

(***************************************************************************)
(* SpecIncrement: the +1 button of the "QR + Text" tab.  The text-only     *)
(* tab's increment_text_only_label is the same code on its own widgets.    *)
(***************************************************************************)
\* the +1 button is pressed while the trailing number is below MaxNumber
MaxNumber == 110

DecimalDigits == <<"0", "1", "2", "3", "4", "5", "6", "7", "8", "9">>

\* c matches \d
IsDigit(c) == \E d \in DOMAIN DecimalDigits : DecimalDigits[d] = c

DigitValue(c) == (CHOOSE d \in DOMAIN DecimalDigits : DecimalDigits[d] = c) - 1

\* text.isdigit(): not empty, and digits only
isdigit(text) == text # <<>> /\ \A i \in DOMAIN text : IsDigit(text[i])

\* int(text) of a text of digits
RECURSIVE int(_)
int(text) ==
    IF text = <<>> THEN 0
    ELSE int(SubSeq(text, 1, Len(text) - 1)) * 10 + DigitValue(text[Len(text)])

\* str(n) of a number n >= 0
RECURSIVE str(_)
str(n) ==
    IF n < 10 THEN <<DecimalDigits[n + 1]>>
    ELSE str(n \div 10) \o <<DecimalDigits[(n % 10) + 1]>>

\* match.start() of re.search(r'(\d+)$', text), counted from 0: the length of
\* what precedes the trailing run of digits; Len(text) if there is no match
RECURSIVE match_start(_)
match_start(text) ==
    IF text # <<>> /\ IsDigit(text[Len(text)])
    THEN match_start(SubSeq(text, 1, Len(text) - 1))
    ELSE Len(text)

\* a faulty variant of increment_label that adds one to the last digit only
increment_label_last_digit(text, prefix) ==
    IF text # <<>> /\ IsDigit(text[Len(text)])
    THEN SubSeq(text, 1, Len(text) - 1) \o str(DigitValue(text[Len(text)]) + 1)
    ELSE IF prefix # <<>> THEN <<"1">>
    ELSE text \o <<" ", "2">>

\* increment_label: the text it passes to label_input.setText
increment_label(text, prefix) ==
    LET start == match_start(text)
        matched == start < Len(text)
        num == int(SubSeq(text, start + 1, Len(text)))
        new_text == SubSeq(text, 1, start) \o str(num + 1)
    IN  IF prefix # <<>>
        THEN IF isdigit(text) THEN str(int(text) + 1)
             ELSE IF matched THEN new_text
             ELSE <<"1">>
        ELSE IF matched THEN new_text
             ELSE text \o <<" ", "2">>

\* the label texts typed before the +1 button is used
LabelStarts ==
    {<<>>, <<"A">>, <<"7">>, <<"9", "8">>, <<"0", "0", "7">>,
     <<"B", "o", "x", " ", "9">>, <<"A", "1", "B">>}

\* the user types a label text
TypeLabel ==
    /\ transport' = <<>>
    /\ dialog' = <<>>
    /\ UNCHANGED <<lib_vars, batch_tab>>
    /\ \E label \in LabelStarts \ {single_tab.label_input} :
          single_tab' =
              on_input_changed([single_tab EXCEPT !.label_input = label])

\* the prefix combo changes: on_prefix_changed calls on_input_changed
SelectPrefix ==
    /\ transport' = <<>>
    /\ dialog' = <<>>
    /\ UNCHANGED <<lib_vars, batch_tab>>
    /\ \E prefix \in Prefixes \ {single_tab.prefix_combo} :
          single_tab' =
              on_input_changed([single_tab EXCEPT !.prefix_combo = prefix])

\* a press of the +1 button: setText changes the text, and textChanged calls
\* on_input_changed
IncrementLabel ==
    /\ LET text == single_tab.label_input
       IN  int(SubSeq(text, match_start(text) + 1, Len(text))) < MaxNumber
    /\ transport' = <<>>
    /\ dialog' = <<>>
    /\ UNCHANGED <<lib_vars, batch_tab>>
    /\ single_tab' =
          on_input_changed(
              [single_tab EXCEPT !.label_input =
                   increment_label(@, single_tab.prefix_combo)])

NextIncrement ==
    \/ TypeLabel
    \/ SelectPrefix
    \/ IncrementLabel

SpecIncrement == Init /\ [][NextIncrement]_vars

(***************************************************************************)
(* Properties of the +1 button (SpecIncrement).                            *)
(***************************************************************************)
\* the number a text of digits denotes, by the weights of its positions
RECURSIVE PositionalValue(_, _)
PositionalValue(digits, weight) ==
    IF digits = <<>> THEN 0
    ELSE DigitValue(digits[Len(digits)]) * weight
         + PositionalValue(SubSeq(digits, 1, Len(digits) - 1), weight * 10)

\* the characters of a text before its trailing run of digits
BeforeNumber(text) ==
    SubSeq(text, 1,
           CHOOSE n \in 0..Len(text) :
               /\ \A i \in (n + 1)..Len(text) : IsDigit(text[i])
               /\ n > 0 => ~IsDigit(text[n]))

\* C28: +1 on a text that ends in digits replaces the trailing run of
\* digits by the decimal form of its value plus one and keeps what precedes
\* it; on a text without trailing digits it appends " 2" when no prefix is
\* selected and sets the text to "1" when one is.
C28_IncrementAddsOne ==
    [][IncrementLabel =>
         LET text == single_tab.label_input
             new == single_tab'.label_input
             before == BeforeNumber(text)
             old_run == SubSeq(text, Len(before) + 1, Len(text))
             new_run == SubSeq(new, Len(before) + 1, Len(new))
         IN  IF old_run # <<>>
             THEN /\ SubSeq(new, 1, Len(before)) = before
                  /\ new_run # <<>>
                  /\ \A i \in DOMAIN new_run : IsDigit(new_run[i])
                  /\ new_run[1] # "0"
                  /\ PositionalValue(new_run, 1)
                        = PositionalValue(old_run, 1) + 1
             ELSE IF single_tab.prefix_combo = <<>>
             THEN new = text \o <<" ", "2">>
             ELSE new = <<"1">>]_vars

\* "Box 9" was incremented to "Box 10" and on to "Box 12"
C28_Witness ==
    /\ single_tab.label_input = <<"B", "o", "x", " ", "1", "2">>
    /\ single_tab.prefix_combo = <<>>

====
